---- MODULE Spec2Model ----
(***************************************************************************)
(* A model of the cycle runner SGLDRunner of bnn_priors/inference.py: its  *)
(* construction, the cycle / epoch / batch loops of run(), step(),         *)
(* add_scalar() and get_samples().  The sampler (SGLD), the model and the  *)
(* cosine schedule live outside inference.py and are modelled from the     *)
(* design document.  So is the Metropolis-Hastings sampler VerletSGLD,     *)
(* which testing/test_verlet_sgld.py drives.                               *)
(***************************************************************************)
EXTENDS Integers, Sequences, FiniteSets, TLC

\* ------------------------------------------------------------------ bounds
MaxEpochs == 3      \* epochs_per_cycle ranges over 1..MaxEpochs
MaxWarmup == 1      \* warmup_epochs ranges over 0..MaxWarmup
MaxSample == 3      \* sample_epochs ranges over 0..MaxSample
MaxSkip == 2        \* skip ranges over -1..MaxSkip
MaxCycles == 2      \* cycles ranges over 1..MaxCycles
MaxBatches == 2     \* len(dataloader) ranges over 1..MaxBatches
MaxPrecond == 2     \* precond_update ranges over None (written 0), 1..MaxPrecond
NumParams == 1      \* the model has the tracked parameters 1..NumParams
MaxCalls == 6       \* calls of the Metropolis-Hastings sampler in one behaviour
MaxErrors == 2      \* of which calls that raise

None == "None"
ParamNames == 1..NumParams
SkipValues == {-1, 0} \cup (1..MaxSkip)

\* ------------------------------------------------- fixed-point arithmetic
\* Learning rates are fixed-point numbers: LrScale stands for the factor 1.0
\* of the initial learning rate.
LrScale == 10000
PiFP == 31416

\* Python's // : floor division, ZeroDivisionError handled by the caller.
PyFloorDiv(a, b) == IF b > 0 THEN a \div b ELSE (0 - a) \div (0 - b)

\* Python's % : the result has the sign of the divisor.
PyMod(a, b) == a - b * PyFloorDiv(a, b)

\* cos(x) * LrScale for a fixed-point angle 0 <= x <= pi/2 (Taylor, Horner form).
CosSmall(x) ==
    LET x2 == (x * x) \div LrScale
        t5 == LrScale - x2 \div 90
        t4 == LrScale - ((x2 * t5) \div LrScale) \div 56
        t3 == LrScale - ((x2 * t4) \div LrScale) \div 30
        t2 == LrScale - ((x2 * t3) \div LrScale) \div 12
    IN  LrScale - ((x2 * t2) \div LrScale) \div 2

\* cos(pi * num / den) * LrScale for 0 <= num <= den.
CosFP(num, den) ==
    IF 2 * num <= den
    THEN CosSmall((PiFP * num) \div den)
    ELSE 0 - CosSmall((PiFP * (den - num)) \div den)

\* get_cosine_schedule(num_steps): the factor of the learning rate at schedule
\* position t; a cosine decay from 1 towards 0 over num_steps positions that
\* starts again every num_steps positions.
Schedule(t, num_steps) == (LrScale + CosFP(t % num_steps, num_steps)) \div 2

\* ------------------------------------------------ model and sampler (toy)
\* grad_max, the largest magnitude of a gradient element that step() lets
\* through to the sampler.
GradMax == 2

Abs(x) == IF x < 0 THEN 0 - x ELSE x

RECURSIVE SumSq(_, _, _)
SumSq(p, target, n) ==
    IF n = 0 THEN 0
    ELSE (p[n] - target) * (p[n] - target) + SumSq(p, target, n - 1)

\* model.potential_avg(x, y): a quadratic potential whose minimum is set by
\* the batch.
Potential(p, b) == SumSq(p, b, NumParams)

\* loss.backward(): the gradient of the potential for every tracked parameter.
Backward(p, b) == [n \in ParamNames |-> 2 * (p[n] - b)]

\* p.grad.clamp_(min=-grad_max, max=grad_max)
Clamp(g) == IF g > GradMax THEN GradMax ELSE IF g < 0 - GradMax THEN 0 - GradMax ELSE g

\* The noise the sampler injects at its k-th step; none at temperature 0.
Noise(temperature, k) == IF temperature = 0 THEN 0 ELSE (k % 3) - 1

\* SGLD.step() for one parameter: the momentum absorbs the scaled negative
\* gradient and the noise, the parameter moves by the momentum, and the
\* running estimates of the state are refreshed.
SamplerStep(p, g, st, lr, temperature, k) ==
    LET m == (0 - ((lr * g * st.preconditioner) \div LrScale)) + Noise(temperature, k)
    IN  [param |-> p + m,
         state |-> [momentum_buffer |-> m,
                    preconditioner |-> st.preconditioner,
                    est_temperature |-> (m * m) \div st.preconditioner,
                    est_config_temp |-> p * g]]

\* SGLD.estimate_preconditioner(closure, K=1) for one parameter.
EstimatePreconditioner(st, g) == [st EXCEPT !.preconditioner = 1 + Abs(g)]

InitState == [momentum_buffer |-> 0, preconditioner |-> 1,
              est_temperature |-> 0, est_config_temp |-> 0]

\* ------------------------------------------------------------------ state
VARIABLES
    pc,                 \* where the program is
    cfg,                \* the arguments of SGLDRunner(...)
    descent_epochs,     \* self.descent_epochs
    num_samples,        \* self.num_samples
    samples,            \* self._samples: [p: name -> slots, lr: slots]
    metrics,            \* self.metrics: metric name -> sequence of values
    sink,               \* what summary_writer.add_scalar received, in order
    params,             \* the values of the model's tracked parameters
    grads,              \* their .grad
    optimizer,          \* self.optimizer: param group and per-parameter state
    scheduler,          \* self.scheduler: the position of LambdaLR
    prev_loss,          \* self.prev_loss
    cycle, epoch, step, batch, epochs_since_start,   \* the locals of run()
    precond_calls,      \* history: (cycle, epoch, steps taken) of every estimate_preconditioner call
    steps,              \* history: one record per step() call
    writes,             \* history: one record per snapshot stored
    returned,           \* what the last get_samples() call returned, and when
    verlet,             \* the VerletSGLD sampler: phase, parameters, momenta, saved copy
    mh_locals,          \* the caller's prev_loss, loss and delta_energy
    mh_calls            \* history: one record per call of the VerletSGLD sampler

vars == <<pc, cfg, descent_epochs, num_samples, samples, metrics, sink, params,
          grads, optimizer, scheduler, prev_loss, cycle, epoch, step, batch,
          epochs_since_start, precond_calls, steps, writes, returned,
          verlet, mh_locals, mh_calls>>

runLocals == <<cycle, epoch, step, batch, epochs_since_start>>

runnerVars == <<pc, cfg, descent_epochs, num_samples, samples, metrics, sink, params,
                grads, optimizer, scheduler, prev_loss, cycle, epoch, step, batch,
                epochs_since_start, precond_calls, steps, writes, returned>>

mhVars == <<verlet, mh_locals, mh_calls>>

\* Every combination of the arguments the model draws from.
AllConfigs ==
    [epochs_per_cycle : 1..MaxEpochs,
     warmup_epochs    : 0..MaxWarmup,
     sample_epochs    : 0..MaxSample,
     skip             : SkipValues,
     cycles           : 1..MaxCycles,
     batches          : 1..MaxBatches,
     temperature      : {1},
     sampling_decay   : BOOLEAN,
     precond_update   : 0..MaxPrecond,        \* 0 stands for None
     summary_writer   : {None, "writer"}]

\* The optional arguments leave their defaults (sampling_decay=True,
\* precond_update=None, summary_writer=None) one at a time.
Configs ==
    {c \in AllConfigs :
        /\ c.precond_update # 0 => c.sampling_decay
        /\ c.summary_writer # None => (c.sampling_decay /\ c.precond_update = 0)}

EmptyMetrics == [name \in {} |-> <<>>]

Init ==
    /\ pc = "new"
    /\ cfg \in Configs
    /\ descent_epochs = 0
    /\ num_samples = 0
    /\ samples = [p |-> [n \in ParamNames |-> <<>>], lr |-> <<>>]
    /\ metrics = EmptyMetrics
    /\ sink = <<>>
    /\ params = [n \in ParamNames |-> n + 1]
    /\ grads = [n \in ParamNames |-> 0]
    /\ optimizer = [lr |-> 0, temperature |-> 0, state |-> [n \in ParamNames |-> InitState]]
    /\ scheduler = [last_epoch |-> 0, num_steps |-> 0]
    /\ prev_loss = None
    /\ cycle = 0 /\ epoch = 0 /\ step = 0 /\ batch = 0 /\ epochs_since_start = 0
    /\ precond_calls = <<>>
    /\ steps = <<>>
    /\ writes = <<>>
    /\ returned = [called |-> FALSE, at |-> 0, value |-> samples]
    /\ verlet = [phase |-> "IDLE",
                 p |-> [n \in ParamNames |-> n + 1],
                 m |-> [n \in ParamNames |-> 0],
                 saved |-> [p |-> [n \in ParamNames |-> 0], m |-> [n \in ParamNames |-> 0]],
                 prev_kinetic |-> 0]
    /\ mh_locals = [prev_loss |-> 0, loss |-> 0, delta_energy |-> 0]
    /\ mh_calls = <<>>

\* ----------------------------------------------------------- construction
\* A buffer allocated with another fill value.
Ones(n) == [i \in 0..(n - 1) |-> 1]

\* torch.zeros(torch.Size([n]) + shape): n zero slots, indexed from 0.
Zeros(n) == [i \in 0..(n - 1) |-> 0]

\* self.num_samples = sample_epochs // skip
NumSamples(c) == PyFloorDiv(c.sample_epochs, c.skip)

\* What makes __init__ raise: the division by a zero skip, and torch.zeros
\* asked for a negative number of slots.
ConstructRaises(c) ==
    \/ c.skip = 0
    \/ NumSamples(c) * c.cycles < 0

\* SGLDRunner.__init__
Construct ==
    /\ pc = "new"
    /\ IF ConstructRaises(cfg)
       THEN /\ pc' = "ctor_error"
            /\ UNCHANGED <<descent_epochs, num_samples, samples>>
       ELSE /\ pc' = "constructed"
            /\ descent_epochs' = cfg.epochs_per_cycle - cfg.warmup_epochs - cfg.sample_epochs
            /\ num_samples' = NumSamples(cfg)
            /\ samples' = [p |-> [n \in ParamNames |-> Zeros(NumSamples(cfg) * cfg.cycles)],
                           lr |-> Zeros(NumSamples(cfg) * cfg.cycles)]
    /\ metrics' = EmptyMetrics
    /\ UNCHANGED <<mhVars, returned, cfg, sink, params, grads, optimizer, scheduler, prev_loss,
                   runLocals, precond_calls, steps, writes>>

\* ------------------------------------------------------------- add_scalar
\* add_scalar with the forwarding left inside the except branch: only the
\* first value of a metric reaches the summary writer.
AddScalarForwardsNewOnly(ms, name, value, i) ==
    [metrics |-> IF name \in DOMAIN ms.metrics
                 THEN [ms.metrics EXCEPT ![name] = Append(@, value)]
                 ELSE [k \in DOMAIN ms.metrics \cup {name} |->
                          IF k = name THEN <<value>> ELSE ms.metrics[k]],
     sink    |-> IF cfg.summary_writer # None /\ name \notin DOMAIN ms.metrics
                 THEN Append(ms.sink, <<name, value, i>>)
                 ELSE ms.sink]

\* SGLDRunner.add_scalar(name, value, step) on the pair (metrics, sink): the
\* value is appended to the metric's sequence, which is created when the name
\* is new, and the triple goes to the summary writer when there is one.
AddScalar(ms, name, value, i) ==
    [metrics |-> IF name \in DOMAIN ms.metrics
                 THEN [ms.metrics EXCEPT ![name] = Append(@, value)]
                 ELSE [k \in DOMAIN ms.metrics \cup {name} |->
                          IF k = name THEN <<value>> ELSE ms.metrics[k]],
     sink    |-> IF cfg.summary_writer # None
                 THEN Append(ms.sink, <<name, value, i>>)
                 ELSE ms.sink]

\* The loop of step() over the parameters 1..n: three values per parameter.
RECURSIVE LogParams(_, _, _, _)
LogParams(ms, st, i, n) ==
    IF n = 0 THEN ms
    ELSE LET before == LogParams(ms, st, i, n - 1)
             a == AddScalar(before, <<"preconditioner", n>>, st[n].preconditioner, i)
             b == AddScalar(a, <<"est_temperature", n>>, st[n].est_temperature, i)
         IN  AddScalar(b, <<"est_config_temp", n>>, st[n].est_config_temp, i)

\* The tail of step() with the difference taken the wrong way round.
LogStepSwapped(ms, st, lr, loss, prev, i) ==
    LET a == LogParams(ms, st, i, NumParams)
        b == AddScalar(a, <<"lr", 0>>, lr, i)
        c == AddScalar(b, <<"loss", 0>>, loss, i)
    IN  IF i > 0 THEN AddScalar(c, <<"log_prob_accept", 0>>, loss - prev, i - 1) ELSE c

\* The tail of step(): lr, loss and, when i > 0, the lagged log_prob_accept.
LogStep(ms, st, lr, loss, prev, i) ==
    LET a == LogParams(ms, st, i, NumParams)
        b == AddScalar(a, <<"lr", 0>>, lr, i)
        c == AddScalar(b, <<"loss", 0>>, loss, i)
    IN  IF i > 0 THEN AddScalar(c, <<"log_prob_accept", 0>>, prev - loss, i - 1) ELSE c

\* -------------------------------------------------------------------- run
\* A schedule stretched over the whole run instead of one cycle.
ScheduleLenWholeRun(c) == c.batches * c.epochs_per_cycle * c.cycles

\* The length handed to get_cosine_schedule by run().
ScheduleLen(c) == c.batches * c.epochs_per_cycle

\* run(), up to the cycle loop: the optimizer and the scheduler are created;
\* LambdaLR starts at position 0 and sets the rate of that position.
RunStart ==
    /\ pc = "constructed"
    /\ optimizer' = [lr |-> Schedule(0, ScheduleLen(cfg)),
                     temperature |-> cfg.temperature,
                     state |-> [n \in ParamNames |-> InitState]]
    /\ scheduler' = [last_epoch |-> 0, num_steps |-> ScheduleLen(cfg)]
    /\ epochs_since_start' = 0 - 1
    /\ cycle' = 0
    /\ pc' = "cycle"
    /\ UNCHANGED <<mhVars, returned, cfg, descent_epochs, num_samples, samples, metrics, sink, params,
                   grads, prev_loss, epoch, step, batch, precond_calls, steps, writes>>

\* for cycle in range(self.cycles): step = 0
CycleStart ==
    /\ pc = "cycle"
    /\ cycle < cfg.cycles
    /\ step' = 0
    /\ epoch' = 0
    /\ pc' = "epoch"
    /\ UNCHANGED <<mhVars, returned, cfg, descent_epochs, num_samples, samples, metrics, sink, params,
                   grads, optimizer, scheduler, prev_loss, cycle, batch,
                   epochs_since_start, precond_calls, steps, writes>>

\* The cycle loop is exhausted: run() returns.
RunDone ==
    /\ pc = "cycle"
    /\ cycle = cfg.cycles
    /\ pc' = "done"
    /\ UNCHANGED <<mhVars, returned, cfg, descent_epochs, num_samples, samples, metrics, sink, params,
                   grads, optimizer, scheduler, prev_loss, runLocals, precond_calls,
                   steps, writes>>

\* The descent phase taken one epoch too long.
EpochTemperatureOffByOne(e) == IF e <= descent_epochs THEN 0 ELSE cfg.temperature

\* The temperature run() gives the parameter group for an epoch.
EpochTemperature(e) == IF e < descent_epochs THEN 0 ELSE cfg.temperature

\* for epoch in epochs: the head of the epoch, up to the batch loop.
EpochStart ==
    /\ pc = "epoch"
    /\ epoch < cfg.epochs_per_cycle
    /\ epochs_since_start' = epochs_since_start + 1
    /\ optimizer' = [optimizer EXCEPT !.temperature = EpochTemperature(epoch)]
    /\ batch' = 0
    /\ pc' = "batch"
    /\ UNCHANGED <<mhVars, returned, cfg, descent_epochs, num_samples, samples, metrics, sink, params,
                   grads, scheduler, prev_loss, cycle, epoch, step, precond_calls,
                   steps, writes>>

\* The epoch loop is exhausted: on to the next cycle.
CycleEnd ==
    /\ pc = "epoch"
    /\ epoch = cfg.epochs_per_cycle
    /\ cycle' = cycle + 1
    /\ pc' = "cycle"
    /\ UNCHANGED <<mhVars, returned, cfg, descent_epochs, num_samples, samples, metrics, sink, params,
                   grads, optimizer, scheduler, prev_loss, epoch, step, batch,
                   epochs_since_start, precond_calls, steps, writes>>

\* step() called with lr_decay=False.
LrDecayOff == FALSE

\* Whether step() lets the scheduler advance (its lr_decay argument, which
\* run() leaves at the default).
LrDecay == TRUE

\* step() with the clamp placed after the sampler's step.
StepProgramClampLate ==
    <<"zero_grad", "potential", "backward", "optimizer_step", "clamp", "scheduler_step">>

\* The statements of step() before its logging, in the order of the source.
StepProgram ==
    <<"zero_grad", "potential", "backward", "clamp", "optimizer_step", "scheduler_step">>

\* One statement of step() on its working state w: the gradients, the loss,
\* the parameters, the sampler state, the rate and the scheduler position.
\* backward() adds to the gradients that are there, as autograd does.
ExecOp(w, op, b, temperature, k) ==
    LET done == [w EXCEPT !.ops = Append(@, op)]
    IN  CASE op = "zero_grad" ->
                 [done EXCEPT !.grads = [n \in ParamNames |-> 0]]
          [] op = "potential" ->
                 [done EXCEPT !.loss = Potential(w.params, b)]
          [] op = "backward" ->
                 [done EXCEPT !.grads = [n \in ParamNames |->
                                            w.grads[n] + Backward(w.params, b)[n]],
                              !.grad_raw = Backward(w.params, b)]
          [] op = "clamp" ->
                 [done EXCEPT !.grads = [n \in ParamNames |-> Clamp(w.grads[n])]]
          [] op = "optimizer_step" ->
                 LET res == [n \in ParamNames |->
                               SamplerStep(w.params[n], w.grads[n], w.state[n],
                                           w.lr, temperature, k)]
                 IN  [done EXCEPT !.params = [n \in ParamNames |-> res[n].param],
                                  !.state = [n \in ParamNames |-> res[n].state],
                                  !.grad_seen = w.grads]
          [] op = "scheduler_step" ->
                 IF LrDecay
                 THEN [done EXCEPT !.last_epoch = w.last_epoch + 1,
                                   !.lr = Schedule(w.last_epoch + 1, scheduler.num_steps)]
                 ELSE done

\* The first n statements of a program, one after the other.
RECURSIVE ExecProgram(_, _, _, _, _, _)
ExecProgram(w, prog, n, b, temperature, k) ==
    IF n = 0 THEN w
    ELSE ExecOp(ExecProgram(w, prog, n - 1, b, temperature, k), prog[n], b, temperature, k)

\* The batch loop left one batch early.
DataloaderExhaustedEarly(b) == b >= cfg.batches - 1

\* The dataloader has no batch left after b batches.
DataloaderExhausted(b) == b = cfg.batches

\* One batch of the dataloader: self.step(step, x, y); step += 1
Step ==
    /\ pc = "batch"
    /\ ~DataloaderExhausted(batch)
    /\ \E w \in {ExecProgram([grads |-> grads, loss |-> 0, params |-> params,
                              state |-> optimizer.state, lr |-> optimizer.lr,
                              last_epoch |-> scheduler.last_epoch,
                              grad_raw |-> grads, grad_seen |-> grads, ops |-> <<>>],
                             StepProgram, Len(StepProgram), batch,
                             optimizer.temperature, Len(steps))} :
       \E ms \in {LogStep([metrics |-> metrics, sink |-> sink], w.state, w.lr,
                          w.loss, prev_loss, step)} :
           /\ grads' = w.grads
           /\ params' = w.params
           /\ optimizer' = [optimizer EXCEPT !.state = w.state, !.lr = w.lr]
           /\ scheduler' = [scheduler EXCEPT !.last_epoch = w.last_epoch]
           /\ metrics' = ms.metrics
           /\ sink' = ms.sink
           /\ prev_loss' = w.loss
           /\ steps' = Append(steps, [cycle |-> cycle, epoch |-> epoch, i |-> step,
                                      batch |-> batch,
                                      temperature |-> optimizer.temperature,
                                      lr_used |-> optimizer.lr,
                                      position |-> scheduler.last_epoch,
                                      lr |-> w.lr, loss |-> w.loss,
                                      logged_accept |-> (step > 0),
                                      ops |-> w.ops,
                                      params_before |-> params,
                                      params_after |-> w.params,
                                      grad_raw |-> w.grad_raw,
                                      grad_seen |-> w.grad_seen])
    /\ step' = step + 1
    /\ batch' = batch + 1
    /\ pc' = IF DataloaderExhausted(batch + 1) THEN "epoch_end" ELSE "batch"
    /\ UNCHANGED <<mhVars, returned, cfg, descent_epochs, num_samples, samples, cycle, epoch,
                   epochs_since_start, precond_calls, writes>>

\* sampling_epoch = epoch - (self.descent_epochs + self.warmup_epochs)
SamplingEpoch(e) == e - (descent_epochs + cfg.warmup_epochs)

\* The condition under which run() stores a snapshot after epoch e.
IsSnapshotEpoch(e) == 0 <= SamplingEpoch(e) /\ PyMod(SamplingEpoch(e), cfg.skip) = 0

\* The index run() stores the snapshot of epoch e of cycle c at.
SnapshotIndex(c, e) == (num_samples * c) + PyFloorDiv(SamplingEpoch(e), cfg.skip)

\* Indexing a tensor of n slots: IndexError outside -n..n-1.
IndexRaises(idx, n) == idx >= n \/ idx < 0 - n

\* A negative index counts from the end.
SlotOf(idx, n) == IF idx < 0 THEN idx + n ELSE idx

\* The update counted in epochs since the start of the run, not of the cycle.
PrecondDueSinceStart(e) ==
    cfg.precond_update # 0 /\ epochs_since_start % cfg.precond_update = 0

\* Whether run() re-estimates the preconditioner after epoch e.
PrecondDue(e) == cfg.precond_update # 0 /\ e % cfg.precond_update = 0

\* The initial rate stored in place of the current one.
SnapshotLrInitial == Schedule(0, scheduler.num_steps)

\* The rate run() stores with a snapshot.
SnapshotLr == optimizer.lr

\* The tail of an epoch: the preconditioner update and the snapshot.
EpochEnd ==
    /\ pc = "epoch_end"
    /\ LET doPrecond == PrecondDue(epoch)
           newState == IF doPrecond
                       THEN [n \in ParamNames |->
                               EstimatePreconditioner(optimizer.state[n], grads[n])]
                       ELSE optimizer.state
           cap == Cardinality(DOMAIN samples.lr)
           idx == SnapshotIndex(cycle, epoch)
       IN  /\ optimizer' = [optimizer EXCEPT !.state = newState]
           /\ precond_calls' = IF doPrecond
                               THEN Append(precond_calls, <<cycle, epoch, Len(steps)>>)
                               ELSE precond_calls
           /\ IF IsSnapshotEpoch(epoch)
              THEN IF IndexRaises(idx, cap)
                   THEN /\ pc' = "run_error"
                        /\ UNCHANGED <<samples, writes, epoch>>
                   ELSE /\ samples' =
                             [p  |-> [n \in ParamNames |->
                                       [samples.p[n] EXCEPT ![SlotOf(idx, cap)] = params[n]]],
                              lr |-> [samples.lr EXCEPT ![SlotOf(idx, cap)] = SnapshotLr]]
                        /\ writes' = Append(writes, [cycle |-> cycle, epoch |-> epoch,
                                                     index |-> SlotOf(idx, cap),
                                                     params |-> params,
                                                     lr |-> SnapshotLr,
                                                     at_step |-> Len(steps),
                                                     preconds |-> Len(precond_calls')])
                        /\ epoch' = epoch + 1
                        /\ pc' = "epoch"
              ELSE /\ epoch' = epoch + 1
                   /\ pc' = "epoch"
                   /\ UNCHANGED <<samples, writes>>
    /\ UNCHANGED <<mhVars, returned, cfg, descent_epochs, num_samples, metrics, sink, params, grads,
                   scheduler, prev_loss, cycle, step, batch, epochs_since_start, steps>>

\* get_samples(): the buffer itself.
GetSamples == samples

\* A caller's get_samples() once run() has returned or raised; nothing is
\* assigned.
GetSamplesCall ==
    /\ pc \in {"done", "run_error"}
    /\ returned' = [called |-> TRUE, at |-> Len(writes), value |-> GetSamples]
    /\ UNCHANGED <<pc, cfg, descent_epochs, num_samples, samples, metrics, sink, params,
                   grads, optimizer, scheduler, prev_loss, runLocals, precond_calls,
                   steps, writes, mhVars>>

Next ==
    \/ Construct
    \/ RunStart
    \/ CycleStart
    \/ RunDone
    \/ EpochStart
    \/ CycleEnd
    \/ Step
    \/ EpochEnd
    \/ GetSamplesCall

Spec == Init /\ [][Next]_vars

\* The configurations the documented contract of the constructor admits: a
\* cycle long enough for its warm-up and sampling phases, a positive skip and
\* at least one sample per cycle.
ValidConfig(c) ==
    /\ c.epochs_per_cycle >= c.warmup_epochs + c.sample_epochs
    /\ c.skip >= 1
    /\ c.sample_epochs \div c.skip >= 1

InitValid == Init /\ ValidConfig(cfg)

\* The runs of the runner from those configurations only.
SpecValid == InitValid /\ [][Next]_vars

\* ------------------------------------------- Metropolis-Hastings sampler
\* The potential of the test's model, a Gaussian around 0, and its gradient.
VerletPotential(p) == Potential(p, 0)

VerletGrad(p) == Backward(p, 0)

\* The kinetic energy of the momenta (preconditioner 1), times two.
Kinetic(m) == SumSq(m, 0, NumParams)

\* The noise one interior step may inject.
VerletNoise == {-1, 1}

\* Every operation is accepted in every phase.
AllowedAnywhere(op, phase) == TRUE

\* The phases an operation of the sampler is accepted in; in any other it
\* raises.
Allowed(op, phase) ==
    CASE op = "sample_momentum" -> phase = "IDLE"
      [] op = "initial_step"    -> phase = "IDLE"
      [] op = "step"            -> phase \in {"IDLE", "HALF_STEP"}
      [] op = "final_step"      -> phase = "HALF_STEP"
      [] op = "delta_energy"    -> phase = "FINAL"
      [] op = "maybe_reject"    -> phase = "ENERGY"

\* Half of the momentum update: the momenta absorb half the gradient.
HalfKick(p, m) == [n \in ParamNames |-> m[n] - (VerletGrad(p)[n] \div 2)]

\* The whole momentum update with the injected noise.
FullKick(p, m, eps) == [n \in ParamNames |-> m[n] - VerletGrad(p)[n] + eps]

\* The parameters move by the momenta.
Drift(p, m) == [n \in ParamNames |-> p[n] + m[n]]

\* initial_step(closure, save_state): the copy of the parameters and momenta
\* is taken before anything moves.
VerletInitialStep(v, save_state) ==
    [v EXCEPT !.saved = IF save_state THEN [p |-> v.p, m |-> v.m] ELSE @,
              !.prev_kinetic = Kinetic(v.m),
              !.m = HalfKick(v.p, v.m),
              !.p = Drift(v.p, HalfKick(v.p, v.m)),
              !.phase = "HALF_STEP"]

\* step(closure): one full update.
VerletStep(v, eps) ==
    [v EXCEPT !.m = FullKick(v.p, v.m, eps),
              !.p = Drift(v.p, FullKick(v.p, v.m, eps))]

\* final_step(closure): the second half of the momentum update.
VerletFinalStep(v) ==
    [v EXCEPT !.m = HalfKick(v.p, v.m), !.phase = "FINAL"]

\* delta_energy(prev_loss, loss): new potential and kinetic energy minus the
\* previous ones, times two.
VerletDeltaEnergy(v, prev, loss) ==
    (2 * loss + Kinetic(v.m)) - (2 * prev + v.prev_kinetic)

\* A rejection that puts the parameters back and leaves the momenta.
RestoreParamsOnly(v) == [v EXCEPT !.p = v.saved.p]

\* A rejection: parameters and momenta go back to the saved copy.
Restore(v) == [v EXCEPT !.p = v.saved.p, !.m = v.saved.m]

\* maybe_reject(delta_energy): u > exp(-delta_energy / temperature) with u
\* drawn from [0, 1) can only happen for a positive delta_energy.
CanReject(delta) == delta > 0

ErrorsSoFar == Len(SelectSeq(mh_calls, LAMBDA c : ~c.ok))

\* One call of the sampler and its record in the history.
Record(op, ok, v, ret, rejected) ==
    /\ Len(mh_calls) < MaxCalls
    /\ verlet' = v
    /\ mh_calls' = Append(mh_calls,
                          [op |-> op, ok |-> ok, phase |-> verlet.phase,
                           phase_after |-> v.phase,
                           before |-> [p |-> verlet.p, m |-> verlet.m],
                           after |-> [p |-> v.p, m |-> v.m],
                           ret |-> ret, rejected |-> rejected])
    /\ UNCHANGED runnerVars

\* A call out of order raises and changes nothing.
Raises(op) ==
    /\ ~Allowed(op, verlet.phase)
    /\ ErrorsSoFar < MaxErrors
    /\ Record(op, FALSE, verlet, 0, FALSE)
    /\ UNCHANGED mh_locals

\* sgld.sample_momentum(), once before the first call.
SampleMomentum ==
    \/ /\ Allowed("sample_momentum", verlet.phase)
       /\ mh_calls = <<>>
       /\ \E m0 \in {-1, 0, 1} :
             Record("sample_momentum", TRUE,
                    [verlet EXCEPT !.m = [n \in ParamNames |-> m0]], 0, FALSE)
       /\ UNCHANGED mh_locals
    \/ Raises("sample_momentum")

\* prev_loss = sgld.initial_step(closure, save_state=True).item()
InitialStep ==
    \/ /\ Allowed("initial_step", verlet.phase)
       /\ Record("initial_step", TRUE, VerletInitialStep(verlet, TRUE),
                 VerletPotential(verlet.p), FALSE)
       /\ mh_locals' = [mh_locals EXCEPT !.prev_loss = VerletPotential(verlet.p)]
    \/ Raises("initial_step")

\* sgld.step(closure)
InteriorStep ==
    \/ /\ Allowed("step", verlet.phase)
       /\ \E eps \in VerletNoise :
             Record("step", TRUE, VerletStep(verlet, eps), VerletPotential(verlet.p), FALSE)
       /\ UNCHANGED mh_locals
    \/ Raises("step")

\* loss = sgld.final_step(closure).item()
FinalStep ==
    \/ /\ Allowed("final_step", verlet.phase)
       /\ Record("final_step", TRUE, VerletFinalStep(verlet),
                 VerletPotential(verlet.p), FALSE)
       /\ mh_locals' = [mh_locals EXCEPT !.loss = VerletPotential(verlet.p)]
    \/ Raises("final_step")

\* delta_energy = sgld.delta_energy(prev_loss, loss)
DeltaEnergy ==
    \/ /\ Allowed("delta_energy", verlet.phase)
       /\ Record("delta_energy", TRUE, [verlet EXCEPT !.phase = "ENERGY"],
                 VerletDeltaEnergy(verlet, mh_locals.prev_loss, mh_locals.loss), FALSE)
       /\ mh_locals' = [mh_locals EXCEPT !.delta_energy =
                           VerletDeltaEnergy(verlet, mh_locals.prev_loss, mh_locals.loss)]
    \/ Raises("delta_energy")

\* rejected = sgld.maybe_reject(delta_energy)
MaybeReject ==
    \/ /\ Allowed("maybe_reject", verlet.phase)
       /\ \E reject \in BOOLEAN :
             /\ reject => CanReject(mh_locals.delta_energy)
             /\ Record("maybe_reject", TRUE,
                       [(IF reject THEN Restore(verlet) ELSE verlet) EXCEPT !.phase = "IDLE"],
                       0, reject)
       /\ UNCHANGED mh_locals
    \/ Raises("maybe_reject")

\* A caller of the sampler, free to call its operations in any order.
NextMH ==
    \/ SampleMomentum
    \/ InitialStep
    \/ InteriorStep
    \/ FinalStep
    \/ DeltaEnergy
    \/ MaybeReject

\* The sampler on its own: no runner is constructed.
InitMH ==
    /\ Init
    /\ cfg = [epochs_per_cycle |-> 1, warmup_epochs |-> 0, sample_epochs |-> 1,
              skip |-> 1, cycles |-> 1, batches |-> 1, temperature |-> 1,
              sampling_decay |-> TRUE, precond_update |-> 0, summary_writer |-> None]

SpecMH == InitMH /\ [][NextMH]_vars

\* ----------------------------------------------------------------- claims
Constructed == pc \notin {"new", "ctor_error"}

\* The epochs of the run whose tail (preconditioner update, snapshot) has run.
EpochTailsDone ==
    {ce \in (0..(cfg.cycles - 1)) \X (0..(cfg.epochs_per_cycle - 1)) :
        \/ pc \in {"cycle", "done"} /\ ce[1] < cycle
        \/ /\ pc \in {"epoch", "batch", "epoch_end", "run_error"}
           /\ \/ ce[1] < cycle
              \/ ce[1] = cycle /\ ce[2] < epoch
              \/ ce[1] = cycle /\ ce[2] = epoch /\ pc = "run_error"}

WritesOf(c, e) == {k \in 1..Len(writes) : writes[k].cycle = c /\ writes[k].epoch = e}

WritesOfCycle(c) == {k \in 1..Len(writes) : writes[k].cycle = c}

\* C1: a runner is produced only when
\* epochs_per_cycle >= warmup_epochs + sample_epochs; construction with a
\* smaller epochs_per_cycle raises.
C1_ConstructionRejectsShortCycle ==
    Constructed => cfg.epochs_per_cycle >= cfg.warmup_epochs + cfg.sample_epochs

\* C2: construction raises whenever skip <= 0 or sample_epochs // skip is 0;
\* no such configuration yields a runner.
C2_ConstructionRejectsBadSkip ==
    (cfg.skip <= 0 \/ cfg.sample_epochs \div cfg.skip = 0) => ~Constructed

\* C3: after the tail of epoch e of cycle c a snapshot of that epoch exists
\* if and only if offset = e - (descent_epochs + warmup_epochs) >= 0 and
\* offset % skip = 0, and it sits at index c * num_samples + offset // skip.
C3_SnapshotIffSamplingStride ==
    \A ce \in EpochTailsDone :
        LET offset == ce[2] - ((cfg.epochs_per_cycle - cfg.warmup_epochs
                                  - cfg.sample_epochs) + cfg.warmup_epochs)
            due == offset >= 0 /\ PyMod(offset, cfg.skip) = 0
        IN  /\ due <=> WritesOf(ce[1], ce[2]) # {}
            /\ \A k \in WritesOf(ce[1], ce[2]) :
                  writes[k].index = ce[1] * PyFloorDiv(cfg.sample_epochs, cfg.skip)
                                      + PyFloorDiv(offset, cfg.skip)

\* C4: when run() has returned, every cycle has stored exactly
\* sample_epochs // skip snapshots, and the buffer holds num_samples * cycles
\* filled slots for every parameter and for the learning rate.
C4_FullBufferAfterRun ==
    pc = "done" =>
        /\ \A c \in 0..(cfg.cycles - 1) :
              Cardinality(WritesOfCycle(c)) = cfg.sample_epochs \div cfg.skip
        /\ Cardinality({writes[k].index : k \in 1..Len(writes)})
              = (cfg.sample_epochs \div cfg.skip) * cfg.cycles
        /\ Cardinality(DOMAIN GetSamples.lr) = (cfg.sample_epochs \div cfg.skip) * cfg.cycles
        /\ \A n \in ParamNames :
              Cardinality(DOMAIN GetSamples.p[n]) = (cfg.sample_epochs \div cfg.skip) * cfg.cycles

\* C5: the buffer has num_samples * cycles slots from construction on, no
\* store of run() falls outside them (none raises), every store of cycle c
\* lands in c * num_samples .. (c + 1) * num_samples - 1, and no slot is
\* stored twice.
C5_WritesStayInOwnCycleRange ==
    Constructed =>
        /\ Cardinality(DOMAIN samples.lr) = num_samples * cfg.cycles
        /\ pc # "run_error"
        /\ \A k \in 1..Len(writes) :
              /\ 0 <= writes[k].index /\ writes[k].index < num_samples * cfg.cycles
              /\ writes[k].cycle * num_samples <= writes[k].index
              /\ writes[k].index < (writes[k].cycle + 1) * num_samples
        /\ \A j, k \in 1..Len(writes) : j # k => writes[j].index # writes[k].index

\* The steps of one cycle: its length, and the first epoch of its sampling phase.
StepsPerCycle == cfg.batches * cfg.epochs_per_cycle

FirstSamplingEpoch ==
    IF cfg.epochs_per_cycle - cfg.sample_epochs > 0
    THEN cfg.epochs_per_cycle - cfg.sample_epochs
    ELSE 0

MetricSeq(name) == IF name \in DOMAIN metrics THEN metrics[name] ELSE <<>>

\* C6: every sampler step of an epoch e < epochs_per_cycle - warmup_epochs -
\* sample_epochs ran with the group's temperature 0 and every step of a later
\* epoch of the cycle with the configured temperature, in every cycle (so the
\* temperature is back at 0 in the descent epochs of each later cycle).
C6_TemperatureFollowsPhase ==
    \A k \in 1..Len(steps) :
        steps[k].temperature =
            IF steps[k].epoch < cfg.epochs_per_cycle - cfg.warmup_epochs - cfg.sample_epochs
            THEN 0
            ELSE cfg.temperature

\* C6 witness: a step of a later cycle ran at temperature 0 after a step of
\* the first cycle had run at the configured temperature.
C6_Witness ==
    \E j, k \in 1..Len(steps) :
        /\ j < k
        /\ steps[j].cycle = 0 /\ steps[j].temperature = cfg.temperature
        /\ steps[k].cycle >= 1 /\ steps[k].temperature = 0
        /\ cfg.temperature # 0

C8_RateHeldWhileSampling ==
    ~cfg.sampling_decay =>
        /\ \A k \in 1..Len(steps) :
              steps[k].epoch >= cfg.epochs_per_cycle - cfg.sample_epochs
                  => steps[k].lr = steps[k].lr_used
        /\ \A j, k \in 1..Len(writes) :
              writes[j].cycle = writes[k].cycle
                  => samples.lr[writes[j].index] = samples.lr[writes[k].index]

OneEntryPerStep ==
    /\ Len(MetricSeq(<<"lr", 0>>)) = Len(steps)
    /\ Len(MetricSeq(<<"loss", 0>>)) = Len(steps)
    /\ \A k \in 1..Len(steps) :
          /\ MetricSeq(<<"lr", 0>>)[k] = steps[k].lr
          /\ MetricSeq(<<"loss", 0>>)[k] = steps[k].loss
    /\ \A n \in ParamNames :
          /\ Len(MetricSeq(<<"preconditioner", n>>)) = Len(steps)
          /\ Len(MetricSeq(<<"est_temperature", n>>)) = Len(steps)
          /\ Len(MetricSeq(<<"est_config_temp", n>>)) = Len(steps)

\* The differences step() is to have logged after the first k steps: one for
\* every step that is not the first of its cycle.
RECURSIVE LaggedDifferences(_)
LaggedDifferences(k) ==
    IF k = 0 THEN <<>>
    ELSE IF k > 1 /\ steps[k].cycle = steps[k - 1].cycle
         THEN Append(LaggedDifferences(k - 1), steps[k - 1].loss - steps[k].loss)
         ELSE LaggedDifferences(k - 1)

\* C10 as stated: one entry per step in 'lr', 'loss' and the per-parameter
\* metrics, and log_prob_accept[k] = loss[k] - loss[k+1] for every k, with
\* len(log_prob_accept) = len(loss) - 1.
C10_AcceptLagsLossByOne ==
    /\ OneEntryPerStep
    /\ Len(steps) >= 1 =>
          Len(MetricSeq(<<"log_prob_accept", 0>>)) = Len(MetricSeq(<<"loss", 0>>)) - 1
    /\ \A k \in 1..Len(MetricSeq(<<"log_prob_accept", 0>>)) :
          k + 1 <= Len(MetricSeq(<<"loss", 0>>)) =>
              MetricSeq(<<"log_prob_accept", 0>>)[k]
                  = MetricSeq(<<"loss", 0>>)[k] - MetricSeq(<<"loss", 0>>)[k + 1]

\* C10 amended: one entry per step in 'lr', 'loss' and the per-parameter
\* metrics; every step other than the first of its cycle appends one
\* log_prob_accept entry, the previous step's loss minus its own, so
\* len(log_prob_accept) = len(loss) - (number of cycles begun).
C10_AcceptLagsLossWithinCycle ==
    /\ OneEntryPerStep
    /\ MetricSeq(<<"log_prob_accept", 0>>) = LaggedDifferences(Len(steps))
    /\ Len(MetricSeq(<<"log_prob_accept", 0>>))
          = Len(steps) - Cardinality({steps[k].cycle : k \in 1..Len(steps)})

\* C10 witness: a run of two cycles or more has finished with differences
\* logged in its second cycle.
C10_Witness ==
    /\ pc = "done"
    /\ cfg.cycles >= 2
    /\ StepsPerCycle >= 2
    /\ Len(MetricSeq(<<"log_prob_accept", 0>>)) >= 2
    /\ \E k \in 2..Len(steps) :
          /\ steps[k].cycle >= 1 /\ steps[k].cycle = steps[k - 1].cycle
          /\ steps[k - 1].loss # steps[k].loss

\* What the summary writer received for one metric, in order.
SinkOf(name) == SelectSeq(sink, LAMBDA t : t[1] = name)

\* C14: without a summary writer every add_scalar call appends to the metric
\* log (one entry per step in 'lr' and 'loss') and nothing is forwarded; with
\* one, the writer has received, name by name, exactly the logged values, in
\* the order they were appended, with the step number of the call, and
\* nothing else.
C14_SinkMirrorsMetrics ==
    /\ Len(MetricSeq(<<"lr", 0>>)) = Len(steps)
    /\ Len(MetricSeq(<<"loss", 0>>)) = Len(steps)
    /\ cfg.summary_writer = None => sink = <<>>
    /\ cfg.summary_writer # None =>
          /\ \A k \in 1..Len(sink) : sink[k][1] \in DOMAIN metrics
          /\ \A name \in DOMAIN metrics : \E got \in {SinkOf(name)} :
                /\ Len(got) = Len(metrics[name])
                /\ \A k \in 1..Len(got) : got[k][2] = metrics[name][k]
          /\ \A k \in 1..Len(steps) :
                /\ SinkOf(<<"lr", 0>>)[k][3] = steps[k].i
                /\ SinkOf(<<"loss", 0>>)[k][3] = steps[k].i

\* C14 witness: a run with a summary writer has finished and the writer has
\* received several values of one metric.
C14_Witness ==
    /\ pc = "done"
    /\ cfg.summary_writer # None
    /\ Len(MetricSeq(<<"loss", 0>>)) >= 3
    /\ Len(sink) >= 3 * Len(MetricSeq(<<"loss", 0>>))

\* C15: every step ran zero_grad, the potential, backward, the clamp, the
\* sampler step and the scheduler step in this order, and the gradient the
\* sampler step used is the freshly computed one clamped element by element
\* to [-grad_max, grad_max].
C15_ClampBeforeSamplerStep ==
    \A k \in 1..Len(steps) :
        /\ steps[k].ops = <<"zero_grad", "potential", "backward", "clamp",
                            "optimizer_step", "scheduler_step">>
        /\ steps[k].grad_raw = Backward(steps[k].params_before, steps[k].batch)
        /\ \A n \in ParamNames :
              /\ steps[k].grad_seen[n] <= GradMax
              /\ steps[k].grad_seen[n] >= 0 - GradMax
              /\ steps[k].grad_seen[n] =
                    IF steps[k].grad_raw[n] > GradMax THEN GradMax
                    ELSE IF steps[k].grad_raw[n] < 0 - GradMax THEN 0 - GradMax
                    ELSE steps[k].grad_raw[n]

\* C15 witness: a step computed a gradient outside [-grad_max, grad_max] and
\* its sampler step used the clamped one.
C15_Witness ==
    \E k \in 1..Len(steps) : \E n \in ParamNames :
        /\ Abs(steps[k].grad_raw[n]) > GradMax
        /\ Abs(steps[k].grad_seen[n]) = GradMax

C17_OneStepPerBatchInOrder ==
    /\ \A k \in 1..Len(steps) :
          /\ steps[k].batch = (k - 1) % cfg.batches
          /\ steps[k].epoch = ((k - 1) \div cfg.batches) % cfg.epochs_per_cycle
          /\ steps[k].cycle = (k - 1) \div StepsPerCycle
    /\ \A k \in 2..Len(steps) :
          /\ steps[k].params_before = steps[k - 1].params_after
          /\ steps[k].lr_used = steps[k - 1].lr
    /\ Len(MetricSeq(<<"loss", 0>>)) = Len(steps)
    /\ pc = "done" => Len(steps) = cfg.cycles * cfg.epochs_per_cycle * cfg.batches

\* C17 witness: a run of several cycles, epochs and batches has finished.
C17_Witness ==
    /\ pc = "done"
    /\ cfg.cycles >= 2 /\ cfg.epochs_per_cycle >= 2 /\ cfg.batches >= 2
    /\ Len(steps) = cfg.cycles * cfg.epochs_per_cycle * cfg.batches

\* The last store to the slot of the k-th store.
IsLastWriteOfSlot(k) == \A j \in (k + 1)..Len(writes) : writes[j].index # writes[k].index

\* C18: every snapshot was stored after the last step of its epoch and after
\* the preconditioner update of that epoch, if one was due: the rate stored is
\* the last value of the 'lr' metric at that moment, the parameters stored
\* are those the epoch's last step left, and the buffer holds them.
C18_SnapshotAfterLastStepOfEpoch ==
    \A k \in 1..Len(writes) :
        LET w == writes[k]
        IN  /\ w.at_step >= 1
            /\ steps[w.at_step].cycle = w.cycle
            /\ steps[w.at_step].epoch = w.epoch
            /\ steps[w.at_step].batch = cfg.batches - 1
            /\ w.lr = MetricSeq(<<"lr", 0>>)[w.at_step]
            /\ w.params = steps[w.at_step].params_after
            /\ (cfg.precond_update # 0 /\ w.epoch % cfg.precond_update = 0) =>
                  \E j \in 1..w.preconds :
                      precond_calls[j][1] = w.cycle /\ precond_calls[j][2] = w.epoch
            /\ IsLastWriteOfSlot(k) =>
                  /\ samples.lr[w.index] = w.lr
                  /\ \A n \in ParamNames : samples.p[n][w.index] = w.params[n]

\* C18 witness: a snapshot was stored after an epoch of several steps whose
\* preconditioner update was due, with a rate below the initial one.
C18_Witness ==
    \E k \in 1..Len(writes) :
        /\ cfg.batches >= 2
        /\ cfg.precond_update # 0
        /\ writes[k].epoch % cfg.precond_update = 0
        /\ writes[k].lr < LrScale
        /\ writes[k].params # [n \in ParamNames |-> n + 1]

\* The slots of a buffer that none of the first n stores went to.
UnwrittenSlots(buf, n) ==
    {i \in DOMAIN buf.lr : \A k \in 1..n : writes[k].index # i}

\* Whether a slot of a buffer holds the zero fill value for 'lr' and for
\* every tracked parameter.
SlotIsZero(buf, i) == buf.lr[i] = 0 /\ \A n \in ParamNames : buf.p[n][i] = 0

\* C11: from construction on, at every point of a run and after a run that
\* stopped part-way, every slot run() has not stored to is zero for 'lr' and
\* for every tracked parameter; and what get_samples() returned is the buffer
\* as it was at the call, which the call left as it was.
C11_UnwrittenSlotsStayZero ==
    /\ Constructed =>
          \A i \in UnwrittenSlots(samples, Len(writes)) : SlotIsZero(samples, i)
    /\ returned.called =>
          /\ \A i \in UnwrittenSlots(returned.value, returned.at) :
                SlotIsZero(returned.value, i)
          /\ returned.at = Len(writes) => returned.value = samples

\* C11 witness: get_samples() was called after a run that stored to some
\* slots and then stopped part-way, leaving others unwritten.
C11_Witness ==
    /\ pc = "run_error"
    /\ returned.called
    /\ returned.at = Len(writes)
    /\ Len(writes) >= 1
    /\ UnwrittenSlots(returned.value, returned.at) # {}

\* The order of the Metropolis-Hastings operations: phase, operation, phase
\* after it.
MHProtocol ==
    {<<"IDLE", "sample_momentum", "IDLE">>,
     <<"IDLE", "step", "IDLE">>,
     <<"IDLE", "initial_step", "HALF_STEP">>,
     <<"HALF_STEP", "step", "HALF_STEP">>,
     <<"HALF_STEP", "final_step", "FINAL">>,
     <<"FINAL", "delta_energy", "ENERGY">>,
     <<"ENERGY", "maybe_reject", "IDLE">>}

InOrder(c) == \E q \in {"IDLE", "HALF_STEP", "FINAL", "ENERGY"} : <<c.phase, c.op, q>> \in MHProtocol

LastBefore(op, k) ==
    LET prior == {i \in 1..(k - 1) : mh_calls[i].op = op /\ mh_calls[i].ok}
    IN  IF prior = {} THEN 0 ELSE CHOOSE i \in prior : \A j \in prior : j <= i

\* C13: after a maybe_reject that rejected, the parameters and the momenta
\* are those at the entry of the matching initial_step(save_state=True), and
\* the potential computed from them is the loss that initial_step returned;
\* after one that did not reject they are those final_step produced.
C13_RejectRestoresInitialState ==
    \A k \in 1..Len(mh_calls) :
        LET c == mh_calls[k]
            i == LastBefore("initial_step", k)
            f == LastBefore("final_step", k)
        IN  (c.op = "maybe_reject" /\ c.ok) =>
               /\ i > 0 /\ f > i
               /\ c.rejected => /\ c.after = mh_calls[i].before
                                /\ VerletPotential(c.after.p) = mh_calls[i].ret
               /\ ~c.rejected => c.after = mh_calls[f].after

\* C13 witness: a maybe_reject rejected after an initial_step, an interior
\* step and a final_step that had moved both the parameters and the momenta.
C13_Witness ==
    \E k \in 1..Len(mh_calls) :
        LET c == mh_calls[k]
            i == LastBefore("initial_step", k)
            f == LastBefore("final_step", k)
        IN  /\ c.op = "maybe_reject" /\ c.ok /\ c.rejected
            /\ i > 0 /\ f > i + 1
            /\ mh_calls[i + 1].op = "step" /\ mh_calls[i + 1].ok
            /\ \A n \in ParamNames :
                  /\ mh_calls[f].after.p[n] # mh_calls[i].before.p[n]
                  /\ mh_calls[f].after.m[n] # mh_calls[i].before.m[n]

====
